---- MODULE Spec2Model ----
(***************************************************************************)
(* Model of the VP Analysis API client (vp_analysis_api/VPAnalysisAPI.py): *)
(* client construction, the chunked series fetch (get_series,              *)
(* get_df_from_series_list via _get_series_internal) and invalidate_cache  *)
(* with its overload retry loop.                                           *)
(*                                                                         *)
(* Strings the code computes with (identifiers, the "vp:" prefix) are      *)
(* sequences of code points; strings it only passes along or compares are  *)
(* TLA+ strings.  An Optional value is <<>> (None) or <<v>>.               *)
(***************************************************************************)
EXTENDS Integers, Sequences, FiniteSets, TLC

\* ------------------------------------------------------------------ bounds
\* Largest number of distinct identifiers a caller passes.
MaxIds == 250
\* Largest number of repeated identifiers appended to a caller's list.
MaxDup == 1
\* Iteration orders of a Python set that are explored: the first-occurrence
\* order rotated by 0..MaxRot places, and its reversal.
MaxRot == 0
MaxRows == 5

\* --------------------------------------------------------- program constants
CHUNKING == 100
MAX_RETRIES == 3
SLEEP_SECONDS == 10
TIMEOUT == 600

None == <<>>
Some(v) == <<v>>

\* "vp:" as code points.
VpPrefix == <<118, 112, 58>>

OVERLOAD_TEXT ==
    "upstream connect error or disconnect/reset before headers. reset reason: connection termination"
RATE_TEXT == "Rate exceeded."
DEFAULT_URL == "https://api.variantperception.com"

VARIABLES
    environ,             \* os.environ: the two variables the client reads
    api_key,             \* self.api_key (None before construction)
    data_api_url,        \* self.data_api_url (None before construction)
    arg_key,             \* the api_key argument given to the constructor
    pc,                  \* control position of the client code
    op,                  \* the public method being executed
    site,                \* the `with httpx.Client` block being executed
    arg_list,            \* the list the caller passed to the public method
    series_list,         \* parameter of _get_series_internal
    params,              \* the optional parameters of _get_series_internal
    tickers,             \* argument of invalidate_cache, after tolist()
    unique_series_list,  \* local of _get_series_internal
    series_chunks,       \* local of _get_series_internal
    chunk_i,             \* position of the for loop in series_chunks
    df_list,             \* local of _get_series_internal
    response,            \* the local `response` (None until one arrives)
    exc,                 \* the exception in flight, None when there is none
    num_of_retries,      \* local of invalidate_cache
    requests,            \* every request sent during the current call
    outcomes,            \* how each of those requests ended, in order
    events,              \* connection / request / sleep events of the call
    clock,               \* seconds spent in time.sleep during the call
    open_conns,          \* httpx.Client objects currently open
    outstanding,         \* requests sent and not yet answered
    result,              \* how the last operation ended
    df,                  \* the table given to clean_df
    freq,                \* the freq argument of clean_df
    clean_start_date,    \* the start_date argument of clean_df, as a time
    cleaned              \* the table clean_df returned (None before the call)

vars == <<environ, arg_key, api_key, data_api_url, pc, op, site, arg_list, series_list,
          params, tickers, unique_series_list, series_chunks, chunk_i, df_list,
          response, exc, num_of_retries, requests, outcomes, events, clock,
          open_conns, outstanding, result, df, freq, clean_start_date, cleaned>>

clientVars == <<environ, arg_key, api_key, data_api_url>>
argVars == <<op, arg_list, series_list, params, tickers>>
chunkVars == <<unique_series_list, series_chunks, chunk_i, df_list>>
netVars == <<requests, outcomes, events, clock, open_conns, outstanding>>
cleanVars == <<df, freq, clean_start_date, cleaned>>

\* ------------------------------------------------------------- exceptions
Exc(type, status) == [type |-> type, status |-> status]

VPErrors == {"AuthenticationError", "APIRequestError", "RateLimitError"}

\* isinstance(e, cls) for the classes the except clauses name (lines 11-32).
IsInstance(e, cls) ==
    \/ cls = "Exception"
    \/ e.type = cls
    \/ cls = "VPAnalysisAPIError" /\ e.type \in VPErrors

NoResult == [kind |-> "none"]
Returned(v) == [kind |-> "returned", value |-> v]
Raised(e) == [kind |-> "raised", error |-> e.type]

\* ------------------------------------------------------------ construction
KeyEnvValues == {None, Some("key-from-environment")}
UrlEnvValues == {None, Some("https://from.environment")}
ApiKeyArgs == {None, Some("key-from-argument")}

Environments ==
    [VP_ANALYSIS_API_KEY : KeyEnvValues, VP_DATA_API_URL : UrlEnvValues]

\* os.environ.get(name) and os.environ.get(name, default)
EnvGet(name) == environ[name]
EnvGetDefault(name, default) ==
    IF environ[name] # None THEN environ[name][1] ELSE default

\* The client before construction, no call made yet.
InitClient ==
    /\ environ \in Environments
    /\ arg_key = None
    /\ api_key = None
    /\ data_api_url = None
    /\ pc = "new"
    /\ op = "none"
    /\ site = "none"
    /\ arg_list = <<>>
    /\ series_list = <<>>
    /\ params = None
    /\ tickers = <<>>
    /\ unique_series_list = <<>>
    /\ series_chunks = <<>>
    /\ chunk_i = 0
    /\ df_list = <<>>
    /\ response = None
    /\ exc = None
    /\ num_of_retries = 0
    /\ requests = <<>>
    /\ outcomes = <<>>
    /\ events = <<>>
    /\ clock = 0
    /\ open_conns = 0
    /\ outstanding = 0
    /\ result = NoResult

\* No table has been given to clean_df.
Init ==
    /\ InitClient
    /\ df = None
    /\ freq = None
    /\ clean_start_date = None
    /\ cleaned = None

\* The key with the environment variable taking precedence over the argument.
ResolveApiKeyEnvFirst(arg, env_key) ==
    IF env_key # None THEN env_key
    ELSE IF arg # None THEN arg
    ELSE None

\* The key __init__ keeps: the argument when given, else the environment's.
ResolveApiKey(arg, env_key) ==
    IF arg # None THEN arg
    ELSE IF env_key # None THEN env_key
    ELSE None

\* The base URL __init__ keeps.
ResolveUrl ==
    <<EnvGetDefault("VP_DATA_API_URL", DEFAULT_URL), "/api/v1">>

\* VPAnalysisAPI.__init__(api_key)
Construct(arg) ==
    /\ pc = "new"
    /\ arg_key' = arg
    /\ LET key == ResolveApiKey(arg, EnvGet("VP_ANALYSIS_API_KEY"))
       IN IF key # None
          THEN /\ api_key' = key
               /\ data_api_url' = Some(ResolveUrl)
               /\ pc' = "idle"
               /\ result' = Returned("client")
          ELSE /\ pc' = "failed"
               /\ result' = Raised(Exc("AuthenticationError", 0))
               /\ UNCHANGED <<api_key, data_api_url>>
    /\ UNCHANGED <<environ, cleanVars, site, argVars, chunkVars, response, exc,
                   num_of_retries, netVars>>

\* ------------------------------------------------------- strings and lists
Min(a, b) == IF a < b THEN a ELSE b

\* The identifier a caller names with number i: a one-code-point string.
Id(i) == <<i>>

\* f"vp:{s}" (line 113)
AddPrefix(s) == VpPrefix \o s

\* [f"vp:{s}" for s in series_list] (line 113)
Prefixed(lst) == [i \in 1..Len(lst) |-> AddPrefix(lst[i])]

\* x[3:] (line 115)
DropPrefix(x) == SubSeq(x, 4, Len(x))

\* lst[a:b] for 0 <= a <= b
PySlice(lst, a, b) == SubSeq(lst, a + 1, Min(b, Len(lst)))

\* list(range(0, stop, step))
PyRange(stop, step) ==
    [k \in 1..((stop + step - 1) \div step) |-> (k - 1) * step]

Last(lst) == lst[Len(lst)]
Range(lst) == {lst[i] : i \in 1..Len(lst)}

\* unique is a list(set(lst)): the distinct elements of lst, each once.
IsListOfSet(unique, lst) ==
    /\ Range(unique) = Range(lst)
    /\ Len(unique) = Cardinality(Range(lst))

Reverse(lst) == [i \in 1..Len(lst) |-> lst[Len(lst) + 1 - i]]

Rotate(lst, r) ==
    IF Len(lst) = 0 THEN lst
    ELSE [i \in 1..Len(lst) |-> lst[((i - 1 + r) % Len(lst)) + 1]]

\* The elements of lst without repetition, in order of first occurrence.
FirstOccurrences(lst) ==
    LET indexed == [i \in 1..Len(lst) |-> <<i, lst[i]>>]
        first(p) == \A j \in 1..(p[1] - 1) : lst[j] # p[2]
        kept == SelectSeq(indexed, first)
    IN [k \in 1..Len(kept) |-> kept[k][2]]

\* The orders of list(set(series_list)) (line 151) that are explored: the
\* language leaves the order open, and these are a bounded family of them.
SetOrders(lst) ==
    LET base == FirstOccurrences(lst)
    IN {Rotate(base, r) : r \in 0..MaxRot} \cup {Reverse(base)}

\* Chunks with the slice one element too long: neighbouring chunks overlap.
ChunksSliceOffByOne(unique) ==
    LET starts == PyRange(Len(unique), CHUNKING)
    IN [k \in 1..Len(starts) |->
           PySlice(unique, starts[k], starts[k] + CHUNKING + 1)]

\* series_chunks (lines 152-155)
Chunks(unique) ==
    LET starts == PyRange(Len(unique), CHUNKING)
    IN [k \in 1..Len(starts) |-> PySlice(unique, starts[k], starts[k] + CHUNKING)]

\* ------------------------------------------------------------- call inputs
\* A caller's list: n distinct identifiers followed by d repeated ones.
ListOf(n, d) ==
    [i \in 1..(n + d) |-> IF i <= n THEN Id(i) ELSE Id(i - n)]

AllLists == {ListOf(n, d) : n \in 0..MaxIds, d \in 0..MaxDup}

\* The lists at the edges of the batching: empty, one identifier, one more
\* than a batch holds.
EdgeLists == {ListOf(n, 0) : n \in {0, 1, CHUNKING + 1}}

NoParams ==
    [freq |-> None, validate_old |-> None, start_date |-> None,
     end_date |-> None, currency |-> None]

AllParams ==
    [freq : {None, Some("W")},
     validate_old : {None, Some(TRUE), Some(FALSE)},
     start_date : {None, Some("2020-01-01")},
     end_date : {None, Some("2021-01-01")},
     currency : {None, Some("USD")}]

\* What get_series can pass on: start_date and end_date only (lines 112-114).
GetSeriesParams(start_date, end_date) ==
    [NoParams EXCEPT !.start_date = start_date, !.end_date = end_date]

\* ------------------------------------------------------------ the requests
\* d[k] = v on a dict
Put(d, k, v) == [x \in DOMAIN d \cup {k} |-> IF x = k THEN v ELSE d[x]]

PutIfNotNone(d, k, v) == IF v # None THEN Put(d, k, v[1]) ELSE d

\* data_body with `if validate_old:` in place of `is not None`: a supplied
\* False is left out.
DataBodyTruthy(chunk, p) ==
    LET b0 == [x \in {"series"} |-> chunk]
        b1 == IF p.validate_old = Some(TRUE)
              THEN Put(b0, "validate_old", TRUE) ELSE b0
        b2 == PutIfNotNone(b1, "freq", p.freq)
        b3 == PutIfNotNone(b2, "currency", p.currency)
        b4 == PutIfNotNone(b3, "start_date", p.start_date)
    IN PutIfNotNone(b4, "end_date", p.end_date)

\* data_body of one chunk (lines 159-169)
DataBody(chunk, p) ==
    LET b0 == [x \in {"series"} |-> chunk]
        b1 == PutIfNotNone(b0, "validate_old", p.validate_old)
        b2 == PutIfNotNone(b1, "freq", p.freq)
        b3 == PutIfNotNone(b2, "currency", p.currency)
        b4 == PutIfNotNone(b3, "start_date", p.start_date)
    IN PutIfNotNone(b4, "end_date", p.end_date)

\* headers (lines 171-174, 392-395)
Headers ==
    [Authorization |-> <<"Bearer ", api_key[1]>>,
     ContentType |-> "application/json"]

Request(path, body) ==
    [base_url |-> data_api_url[1], path |-> path, json |-> body,
     headers |-> Headers, timeout |-> TIMEOUT]

\* -------------------------------------------------------------- the server
Response(status, text, content) ==
    [status_code |-> status, text |-> text, content |-> content]

\* What the server may answer to a /series request, one answer for each
\* branch of lines 180-188: a table with one column per requested
\* identifier, bytes that do not decode, status 429, another error status.
SeriesReplies(req) ==
    {Response(200, "", Some(req.json["series"])),
     Response(200, "", None),
     Response(429, RATE_TEXT, None),
     Response(500, "Internal Server Error", None)}

\* ------------------------------------------------- _get_series_internal
\* The except clauses of a public method (lines 190-197, 117-122, 420-425):
\* the exception they raise in place of e.
ExceptClauses(e) ==
    IF IsInstance(e, "HTTPStatusError")
    THEN IF e.status = 429 THEN Exc("RateLimitError", 429)
         ELSE Exc("APIRequestError", e.status)
    ELSE Exc("APIRequestError", e.status)

\* What reaches the caller when _get_series_internal raises e: get_series
\* wraps the call in its own try (lines 111-122), get_df_from_series_list
\* does not (lines 227-234).
Surfaced(o, e) == IF o = "get_series" THEN ExceptClauses(e) ELSE e

\* pd.concat(df_list, axis=1) (line 199): the columns of the frames side by
\* side; pandas raises ValueError when given no frame.
Concat(frames) ==
    LET F[i \in 0..Len(frames)] ==
            IF i = 0 THEN <<>> ELSE F[i - 1] \o frames[i]
    IN F[Len(frames)]

\* df.rename(columns=lambda x: x[3:]) (line 115)
Rename(columns) == [i \in 1..Len(columns) |-> DropPrefix(columns[i])]

Callable == pc = "idle"

\* Entry of _get_series_internal up to the for loop (lines 150-157); unique
\* is the list that list(set(series_list)) produces.
EnterInternal(o, lst, sl, p, unique) ==
    /\ Callable
    /\ IsListOfSet(unique, sl)
    /\ op' = o
    /\ arg_list' = lst
    /\ series_list' = sl
    /\ params' = p
    /\ tickers' = <<>>
    /\ unique_series_list' = unique
    /\ series_chunks' = Chunks(unique)
    /\ chunk_i' = 1
    /\ df_list' = <<>>
    /\ response' = None
    /\ exc' = None
    /\ num_of_retries' = 0
    /\ requests' = <<>>
    /\ outcomes' = <<>>
    /\ events' = <<>>
    /\ clock' = 0
    /\ result' = NoResult
    /\ site' = "series"
    /\ pc' = "open"
    /\ UNCHANGED <<clientVars, cleanVars, open_conns, outstanding>>

\* get_series(series_list, start_date, end_date) (lines 111-114)
GetSeries(lst, start_date, end_date, unique) ==
    EnterInternal("get_series", lst, Prefixed(lst),
                  GetSeriesParams(start_date, end_date), unique)

\* get_df_from_series_list(series_list, freq, currency, ...) (lines 227-234)
GetDfFromSeriesList(lst, p, unique) ==
    EnterInternal("get_df_from_series_list", lst, lst, p, unique)

\* ----------------------------------------------------- one HTTP round trip
\* `with httpx.Client(...) as client:` is entered (lines 177, 399, 407); for
\* the series call this is the for loop taking its next chunk (line 158).
OpenClient ==
    /\ pc = "open"
    /\ site = "series" => chunk_i <= Len(series_chunks)
    /\ open_conns' = open_conns + 1
    /\ events' = Append(events, "open")
    /\ pc' = "post"
    /\ UNCHANGED <<clientVars, cleanVars, site, argVars, chunkVars, response, exc,
                   num_of_retries, requests, outcomes, clock, outstanding,
                   result>>

\* The request client.post sends (lines 178, 400-402, 408-410).
NextRequest ==
    IF site = "series"
    THEN Request("/series", DataBody(series_chunks[chunk_i], params))
    ELSE Request("/series/invalidateCache", [x \in {"tickers"} |-> tickers])

\* client.post(...) sends the request.
SendPost ==
    /\ pc = "post"
    /\ requests' = Append(requests, NextRequest)
    /\ outstanding' = outstanding + 1
    /\ events' = Append(events, "send")
    /\ pc' = "await"
    /\ UNCHANGED <<clientVars, cleanVars, site, argVars, chunkVars, response, exc,
                   num_of_retries, outcomes, clock, open_conns, result>>

\* One entry of the outcomes log.
Outcome(kind, status, text, decodable) ==
    [kind |-> kind, status_code |-> status, text |-> text,
     decodable |-> decodable]

\* client.post(...) returns the server's response.
ReceiveResponse(r) ==
    /\ pc = "await"
    /\ response' = Some(r)
    /\ outcomes' = Append(outcomes, Outcome("response", r.status_code, r.text,
                                             r.content # None))
    /\ outstanding' = outstanding - 1
    /\ events' = Append(events, "recv")
    /\ pc' = "exit_with"
    /\ UNCHANGED <<clientVars, cleanVars, site, argVars, chunkVars, exc, num_of_retries,
                   requests, clock, open_conns, result>>

\* client.post(...) raises: the transport failed (connect error, timeout).
TransportFails ==
    /\ pc = "await"
    /\ exc' = Some(Exc("TransportError", 0))
    /\ outcomes' = Append(outcomes, Outcome("exception", 0, "", FALSE))
    /\ outstanding' = outstanding - 1
    /\ events' = Append(events, "fail")
    /\ pc' = "exit_with"
    /\ UNCHANGED <<clientVars, cleanVars, site, argVars, chunkVars, response,
                   num_of_retries, requests, clock, open_conns, result>>

\* Where control goes when the with block is left.
AfterWith ==
    IF exc # None THEN "except"
    ELSE IF site = "series" THEN "check"
    ELSE "while"

\* num_of_retries after the with block: set to 0 after the first request
\* (line 404), one more after a retry (line 411).
RetriesAfterWith ==
    IF exc # None \/ site = "series" THEN num_of_retries
    ELSE IF site = "first" THEN 0
    ELSE num_of_retries + 1

\* The with block replaced by an open and a close around the post: the close
\* is skipped when the post raises.
CloseClientUnlessRaised ==
    /\ pc = "exit_with"
    /\ open_conns' = IF exc # None THEN open_conns ELSE open_conns - 1
    /\ events' = Append(events, "close")
    /\ num_of_retries' = RetriesAfterWith
    /\ pc' = AfterWith
    /\ UNCHANGED <<clientVars, cleanVars, site, argVars, chunkVars, response, exc,
                   requests, outcomes, clock, outstanding, result>>

\* The with block is left, by normal exit or by the exception: the client's
\* __exit__ closes the connection.
CloseClient ==
    /\ pc = "exit_with"
    /\ open_conns' = open_conns - 1
    /\ events' = Append(events, "close")
    /\ num_of_retries' = RetriesAfterWith
    /\ pc' = AfterWith
    /\ UNCHANGED <<clientVars, cleanVars, site, argVars, chunkVars, response, exc,
                   requests, outcomes, clock, outstanding, result>>

\* ------------------------------------------ the series call, per response
\* The exception the status checks raise (lines 180-185, 413-418), None for
\* status 200.
StatusError(r) ==
    IF r.status_code = 429 THEN Some(Exc("RateLimitError", 429))
    ELSE IF r.status_code # 200 THEN Some(Exc("APIRequestError", r.status_code))
    ELSE None

\* pa.ipc.open_file(response.content) ... read_pandas() (lines 187-188): the
\* frame's columns, or the decoder's exception.
Decode(r) ==
    IF r.content # None THEN r.content[1] ELSE None

\* Lines 180-188 for a response that passes them: the frame is appended and
\* the loop goes on.
ChunkSucceeds ==
    /\ pc = "check"
    /\ site = "series"
    /\ StatusError(response[1]) = None
    /\ Decode(response[1]) # None
    /\ df_list' = Append(df_list, Decode(response[1]))
    /\ chunk_i' = chunk_i + 1
    /\ pc' = "open"
    /\ UNCHANGED <<clientVars, cleanVars, site, argVars, unique_series_list,
                   series_chunks, response, exc, num_of_retries, netVars,
                   result>>

\* A failing chunk skipped instead of raised: the loop goes on without it.
ChunkSkipped ==
    /\ pc = "check"
    /\ site = "series"
    /\ StatusError(response[1]) # None \/ Decode(response[1]) = None
    /\ chunk_i' = chunk_i + 1
    /\ pc' = "open"
    /\ UNCHANGED <<clientVars, cleanVars, site, argVars, unique_series_list,
                   series_chunks, df_list, response, exc, num_of_retries,
                   netVars, result>>

\* Lines 180-188 raise: a status check, or the decoder.
ChunkRaises ==
    /\ pc = "check"
    /\ site = "series"
    /\ \/ StatusError(response[1]) # None /\ exc' = StatusError(response[1])
       \/ /\ StatusError(response[1]) = None
          /\ Decode(response[1]) = None
          /\ exc' = Some(Exc("ArrowInvalid", 0))
    /\ pc' = "except"
    /\ UNCHANGED <<clientVars, cleanVars, site, argVars, chunkVars, response,
                   num_of_retries, netVars, result>>

\* The exception in flight reaches the except clauses of the method that
\* made the request, and what they raise reaches the caller.
ExceptRaises ==
    /\ pc = "except"
    /\ LET raised == ExceptClauses(exc[1])
           e == IF site = "series" THEN Surfaced(op, raised) ELSE raised
       IN /\ exc' = Some(e)
          /\ result' = Raised(e)
    /\ pc' = "done"
    /\ UNCHANGED <<clientVars, cleanVars, site, argVars, chunkVars, response,
                   num_of_retries, netVars>>

\* The for loop is exhausted: pd.concat (line 199), then the caller's part
\* (lines 115-116 for get_series).
ConcatReturns ==
    /\ pc = "open"
    /\ site = "series"
    /\ chunk_i > Len(series_chunks)
    /\ IF df_list = <<>>
       THEN LET e == Surfaced(op, Exc("ValueError", 0))
            IN /\ exc' = Some(e)
               /\ result' = Raised(e)
       ELSE /\ result' = Returned(IF op = "get_series"
                                  THEN Rename(Concat(df_list))
                                  ELSE Concat(df_list))
            /\ exc' = None
    /\ pc' = "done"
    /\ UNCHANGED <<clientVars, cleanVars, site, argVars, chunkVars, response,
                   num_of_retries, netVars>>

\* ------------------------------------------------------- invalidate_cache
\* The overload test on the status alone, whatever the body text.
OverloadByStatusOnly(res) ==
    res.status_code = 503 \/ res.status_code = 429

\* is_server_overload_error(res) (lines 44-50)
is_server_overload_error(res) ==
    \/ (res.status_code = 503 /\ res.text = OVERLOAD_TEXT)
    \/ (res.status_code = 429 /\ res.text = RATE_TEXT)

\* The while condition with one retry too many.
RetryAllowedOnceMore(res, retries) ==
    is_server_overload_error(res) /\ retries <= MAX_RETRIES

\* The while condition (line 405)
RetryAllowed(res, retries) ==
    is_server_overload_error(res) /\ retries < MAX_RETRIES

\* What the server may answer to /series/invalidateCache.
InvalidateReplies ==
    {Response(st, tx, None) :
        st \in {200, 429, 500, 503}, tx \in {OVERLOAD_TEXT, RATE_TEXT, ""}}

TickerArgs == {<<>>, <<Id(1)>>}

\* invalidate_cache(tickers) up to its first request (lines 392-399)
InvalidateCache(t) ==
    /\ Callable
    /\ op' = "invalidate_cache"
    /\ arg_list' = t
    /\ tickers' = t
    /\ series_list' = <<>>
    /\ params' = None
    /\ unique_series_list' = <<>>
    /\ series_chunks' = <<>>
    /\ chunk_i' = 0
    /\ df_list' = <<>>
    /\ response' = None
    /\ exc' = None
    /\ num_of_retries' = 0
    /\ requests' = <<>>
    /\ outcomes' = <<>>
    /\ events' = <<>>
    /\ clock' = 0
    /\ result' = NoResult
    /\ site' = "first"
    /\ pc' = "open"
    /\ UNCHANGED <<clientVars, cleanVars, open_conns, outstanding>>

\* The while condition holds: time.sleep(10), then the retry's with block
\* (lines 405-407).
RetrySleeps ==
    /\ pc = "while"
    /\ RetryAllowed(response[1], num_of_retries)
    /\ clock' = clock + SLEEP_SECONDS
    /\ events' = Append(events, "sleep")
    /\ site' = "retry"
    /\ pc' = "open"
    /\ UNCHANGED <<clientVars, cleanVars, argVars, chunkVars, response, exc,
                   num_of_retries, requests, outcomes, open_conns, outstanding,
                   result>>

\* The while condition fails: the status checks (lines 413-418) raise, or
\* the method returns None.
LoopExits ==
    /\ pc = "while"
    /\ ~RetryAllowed(response[1], num_of_retries)
    /\ IF StatusError(response[1]) = None
       THEN /\ result' = Returned("None")
            /\ pc' = "done"
            /\ exc' = None
       ELSE /\ exc' = StatusError(response[1])
            /\ pc' = "except"
            /\ UNCHANGED result
    /\ UNCHANGED <<clientVars, cleanVars, site, argVars, chunkVars, response,
                   num_of_retries, netVars>>

\* The caller has the call's outcome; the call's frame and everything it
\* held are gone, and the client is as it was right after construction.
\* Connections are not part of a frame: one left open stays open.
CallEnds ==
    /\ pc = "done"
    /\ pc' = "idle"
    /\ op' = "none"
    /\ site' = "none"
    /\ arg_list' = <<>>
    /\ series_list' = <<>>
    /\ params' = None
    /\ tickers' = <<>>
    /\ unique_series_list' = <<>>
    /\ series_chunks' = <<>>
    /\ chunk_i' = 0
    /\ df_list' = <<>>
    /\ response' = None
    /\ exc' = None
    /\ num_of_retries' = 0
    /\ requests' = <<>>
    /\ outcomes' = <<>>
    /\ events' = <<>>
    /\ clock' = 0
    /\ result' = Returned("client")
    /\ UNCHANGED <<clientVars, cleanVars, open_conns, outstanding>>

\* ------------------------------------------------------------ call inputs
\* The calls made on the client.  The order list(set(...)) produces is part
\* of the input: it is fixed by the interpreter's hashing, not by the code.
GetDfCalls ==
    UNION {{[lst |-> l, p |-> q, unique |-> u] :
               q \in AllParams, u \in SetOrders(l)} : l \in EdgeLists}

GetDfBatchCalls ==
    UNION {{[lst |-> l, p |-> NoParams, unique |-> u] : u \in SetOrders(l)} :
              l \in AllLists}

GetSeriesCalls ==
    UNION {{[lst |-> l, s |-> q.start_date, e |-> q.end_date, unique |-> u] :
               q \in {x \in AllParams :
                         x = GetSeriesParams(x.start_date, x.end_date)},
               u \in SetOrders(Prefixed(l))} : l \in EdgeLists}

\* The server's possible answers to the request in flight.
Replies ==
    IF site = "series" THEN SeriesReplies(Last(requests))
    ELSE InvalidateReplies

\* The steps every call shares.
RoundTrip ==
    \/ OpenClient
    \/ SendPost
    \/ pc = "await" /\ \E r \in Replies : ReceiveResponse(r)
    \/ TransportFails
    \/ CloseClient
    \/ ExceptRaises
    \/ CallEnds

SeriesSteps ==
    \/ ChunkSucceeds
    \/ ChunkRaises
    \/ ConcatReturns

\* ---------------------------------------------------------------- clean_df
\* Times are whole numbers of one base period; a frequency is a step in base
\* periods.  A table has a sorted index of distinct times, a set of columns
\* and one cell per column and time; a cell is None (NaN) or Some(value).
Times == 0 .. (MaxRows - 1)
StartDates == 0 .. MaxRows
Freqs == {1, 2}
ColNames == {"a", "b"}

Table(index, columns, data) ==
    [index |-> index, columns |-> columns, data |-> data]

SetMin(S) == CHOOSE t \in S : \A u \in S : t <= u
SetMax(S) == CHOOSE t \in S : \A u \in S : u <= t

\* The columns over an index whose present cells carry the time they were
\* observed at, so that a filled cell tells which cell it was copied from.
ColumnsOver(index) ==
    {[t \in index |-> IF t \in P THEN Some(t) ELSE None] : P \in SUBSET index}

Tables ==
    UNION {UNION {{Table(index, columns, data) :
                      data \in [columns -> ColumnsOver(index)]} :
                  columns \in SUBSET ColNames} :
           index \in SUBSET Times}

\* d restricted to the rows in keep.
Rows(d, keep) ==
    Table(keep, d.columns,
          [c \in d.columns |-> [t \in keep |-> d.data[c][t]]])

\* df.loc[label:] on a sorted index; a None label leaves the slice open.
LocFrom(d, label) ==
    Rows(d, IF label = None THEN d.index
            ELSE {t \in d.index : t >= label[1]})

\* df.asfreq(freq): reindex to the grid from the first to the last time of
\* the index in steps of freq; a grid time the table does not have is NaN in
\* every column, a row off the grid is dropped.  An empty table is returned
\* as it is.
AsFreq(d, step) ==
    IF d.index = {} THEN d
    ELSE LET lo == SetMin(d.index)
             hi == SetMax(d.index)
             grid == {t \in lo .. hi : (t - lo) % step = 0}
         IN Table(grid, d.columns,
                  [c \in d.columns |->
                      [t \in grid |-> IF t \in d.index THEN d.data[c][t]
                                      ELSE None]])

\* Series.ffill(): each cell takes the last non-missing value at or before it.
FFill(col) ==
    [t \in DOMAIN col |->
        LET seen == {u \in DOMAIN col : u <= t /\ col[u] # None}
        IN IF seen = {} THEN None ELSE col[SetMax(seen)]]

\* Series.bfill(): each cell takes the first non-missing value at or after it.
BFill(col) ==
    [t \in DOMAIN col |->
        LET ahead == {u \in DOMAIN col : u >= t /\ col[u] # None}
        IN IF ahead = {} THEN None ELSE col[SetMin(ahead)]]

NotNull(col) == [t \in DOMAIN col |-> col[t] # None]

\* Series.where(cond): the cell where cond holds, NaN elsewhere.
Where(col, cond) == [t \in DOMAIN col |-> IF cond[t] THEN col[t] ELSE None]

\* Forward fill without the mask: every cell after a value is filled.
FillColumnUnmasked(col) == FFill(col)

\* df[col].ffill().where(df[col].bfill().notnull())
FillColumn(col) == Where(FFill(col), NotNull(BFill(col)))

\* The for loop over the columns; each pass assigns one column from itself.
FillColumns(d) ==
    [d EXCEPT !.data = [c \in d.columns |-> FillColumn(d.data[c])]]

\* DataFrame.first_valid_index(): the first row with a non-missing cell in
\* any column, None when there is no such row.
FirstValidIndex(d) ==
    LET valid == {t \in d.index : \E c \in d.columns : d.data[c][t] # None}
    IN IF valid = {} THEN None ELSE Some(SetMin(valid))

clean_df(d, step, start) ==
    LET resampled == AsFreq(LocFrom(d, Some(start)), step)
        filled == FillColumns(resampled)
    IN LocFrom(filled, FirstValidIndex(filled))

\* One call of clean_df on the constructed client.
CleanDf ==
    /\ pc = "idle"
    /\ cleaned = None
    /\ cleaned' = Some(clean_df(df, freq, clean_start_date))
    /\ UNCHANGED <<clientVars, df, freq, clean_start_date, pc, site, argVars,
                   chunkVars, response, exc, num_of_retries, netVars, result>>

Next ==
    \/ \E arg \in ApiKeyArgs : Construct(arg)
    \/ Callable /\ \E c \in GetDfCalls : GetDfFromSeriesList(c.lst, c.p, c.unique)
    \/ Callable /\ \E c \in GetSeriesCalls : GetSeries(c.lst, c.s, c.e, c.unique)
    \/ Callable /\ \E t \in TickerArgs : InvalidateCache(t)
    \/ RoundTrip
    \/ SeriesSteps
    \/ RetrySleeps
    \/ LoopExits

Spec == Init /\ [][Next]_vars

\* Series calls over every list size up to MaxIds, on a client built from the
\* argument's key and the default URL.
InitBatch ==
    /\ Init
    /\ environ = [VP_ANALYSIS_API_KEY |-> None, VP_DATA_API_URL |-> None]

NextBatch ==
    \/ Construct(Some("key-from-argument"))
    \/ Callable /\ \E c \in GetDfBatchCalls : GetDfFromSeriesList(c.lst, c.p, c.unique)
    \/ RoundTrip
    \/ SeriesSteps

SpecBatch == InitBatch /\ [][NextBatch]_vars

\* clean_df on every table of at most MaxRows rows, for each frequency and
\* start date, on a client built from the argument's key.
InitClean ==
    /\ InitClient
    /\ environ = [VP_ANALYSIS_API_KEY |-> None, VP_DATA_API_URL |-> None]
    /\ df \in Tables
    /\ freq \in Freqs
    /\ clean_start_date \in StartDates
    /\ cleaned = None

NextClean ==
    \/ Construct(Some("key-from-argument"))
    \/ CleanDf

SpecClean == InitClean /\ [][NextClean]_vars

\* ================================================================ properties
SeriesOps == {"get_series", "get_df_from_series_list"}
InSeriesCall == op \in SeriesOps
InInvalidate == op = "invalidate_cache"
Done == pc = "done"
RaisedError(name) == result = [kind |-> "raised", error |-> name]

\* C1: in a series call, when the response to a batch has status 429 the
\* call ends by raising RateLimitError, and no request follows that batch.
C1_RateLimitErrorOn429 ==
    (InSeriesCall /\ Done /\ outcomes # <<>> /\ Last(outcomes).status_code = 429)
        => /\ RaisedError("RateLimitError")
           /\ Len(requests) = Len(outcomes)

\* C2: a series call given an empty identifier list sends no request and
\* returns an empty table; it does not raise.
C2_EmptyListReturnsEmptyTable ==
    (InSeriesCall /\ Done /\ arg_list = <<>>)
        => /\ requests = <<>>
           /\ result = Returned(<<>>)

\* C3: the batches partition the de-duplicated identifiers: pairwise
\* disjoint, no identifier twice, union equal to the distinct identifiers of
\* the input, at most CHUNKING identifiers each, only the last one shorter,
\* ceil(n / CHUNKING) batches (100, 100, 50 for 250), and one request per
\* batch, carrying that batch, when every response is a success.
C3_BatchesPartition ==
    InSeriesCall =>
        LET U == Range(series_list)
            n == Cardinality(U)
            m == Len(series_chunks)
            sizes == [k \in 1..m |-> Len(series_chunks[k])]
        IN /\ \A k \in 1..m : sizes[k] >= 1 /\ sizes[k] <= CHUNKING
           /\ \A k \in 1..(m - 1) : sizes[k] = CHUNKING
           /\ \A j, k \in 1..m :
                  j < k => Range(series_chunks[j]) \cap Range(series_chunks[k]) = {}
           /\ \A k \in 1..m : Cardinality(Range(series_chunks[k])) = sizes[k]
           /\ UNION {Range(series_chunks[k]) : k \in 1..m} = U
           /\ m * CHUNKING >= n /\ (m - 1) * CHUNKING < n
           /\ n = 250 => sizes = <<100, 100, 50>>
           /\ result.kind = "returned" =>
                  /\ Len(requests) = m
                  /\ \A k \in 1..m : requests[k].json["series"] = series_chunks[k]

\* A call with duplicates in its list whose distinct identifiers fill two
\* whole batches and part of a third has returned its table.
C3_Witness ==
    /\ InSeriesCall /\ Done /\ result.kind = "returned"
    /\ Len(series_list) > Cardinality(Range(series_list))
    /\ Len(series_chunks) = 3
    /\ Len(requests) = 3

\* The two response shapes invalidate_cache retries on.
Is503Overload(o) ==
    o.kind = "response" /\ o.status_code = 503 /\ o.text = OVERLOAD_TEXT
Is429RateExceeded(o) ==
    o.kind = "response" /\ o.status_code = 429 /\ o.text = RATE_TEXT
Recognized(o) == Is503Overload(o) \/ Is429RateExceeded(o)

Sleeps == Cardinality({i \in 1..Len(events) : events[i] = "sleep"})

\* C4: invalidate_cache makes at most 4 attempts; request k+1 is sent only
\* after response k was a recognized overload and fewer than 3 retries were
\* made; each retry is preceded by exactly one 10-second wait, and no wait
\* comes before the first attempt or after the last.  [503-overload,
\* 503-overload, 200] ends in success after 2 retries and 2 waits; four
\* 503-overloads end in APIRequestError after the 4th attempt.
C4_BoundedRetry ==
    InInvalidate =>
        /\ Len(requests) <= 4
        /\ \A k \in 2..Len(requests) : Recognized(outcomes[k - 1]) /\ k - 1 <= 3
        /\ clock = 10 * Sleeps
        /\ Sleeps =
               IF requests = <<>> THEN 0
               ELSE IF pc \in {"open", "post"} THEN Len(requests)
               ELSE Len(requests) - 1
        /\ \A i \in 1..Len(events) :
               events[i] = "sleep" =>
                   /\ i > 1 /\ events[i - 1] = "close"
                   /\ i < Len(events) => events[i + 1] = "open"
                   /\ Done => i < Len(events)
        /\ Done => Sleeps = Len(requests) - 1
        /\ (/\ Done
            /\ Len(outcomes) = 3
            /\ Is503Overload(outcomes[1])
            /\ Is503Overload(outcomes[2])
            /\ outcomes[3].kind = "response" /\ outcomes[3].status_code = 200)
               => /\ result.kind = "returned"
                  /\ Len(requests) = 3 /\ num_of_retries = 2
                  /\ Sleeps = 2 /\ clock = 20
        /\ (/\ Done
            /\ Len(outcomes) >= 4
            /\ \A i \in 1..4 : Is503Overload(outcomes[i]))
               => /\ RaisedError("APIRequestError")
                  /\ Len(requests) = 4

\* invalidate_cache has ended after four 503-overload responses.
C4_Witness ==
    /\ InInvalidate /\ Done
    /\ Len(outcomes) = 4
    /\ \A i \in 1..4 : Is503Overload(outcomes[i])
    /\ clock = 30

\* C5: when invalidate_cache has used up its retries and the last response
\* is still a recognized overload, the error is RateLimitError for the 429
\* shape and APIRequestError for the 503 shape.
C5_ErrorByPersistingCondition ==
    (InInvalidate /\ Done /\ Len(outcomes) = 4 /\ Recognized(outcomes[4]))
        => IF Is429RateExceeded(outcomes[4])
           THEN RaisedError("RateLimitError")
           ELSE RaisedError("APIRequestError")

\* C6: invalidate_cache sends a further request only after one of the two
\* recognized shapes, and does so while fewer than 3 retries were made;
\* after any other response no request and no wait follows: a 200 ends the
\* call in success, anything else in an error.
C6_RetryOnlyTwoShapes ==
    InInvalidate =>
        /\ \A i \in 1..(Len(outcomes) - 1) : Recognized(outcomes[i])
        /\ (outcomes # <<>> /\ ~Recognized(Last(outcomes))) =>
               /\ Len(requests) = Len(outcomes)
               /\ Sleeps = Len(outcomes) - 1
               /\ Last(events) # "sleep"
        /\ (Done /\ Last(outcomes).kind = "response") =>
               IF Last(outcomes).status_code = 200
               THEN result.kind = "returned"
               ELSE result.kind = "raised"
        /\ (Done /\ Recognized(Last(outcomes))) => Len(outcomes) = 4

\* After one retry, a 429 whose body is not the known text has ended the
\* call in an error at once.
C6_Witness ==
    /\ InInvalidate /\ Done
    /\ Len(outcomes) = 2 /\ Len(requests) = 2
    /\ Is429RateExceeded(outcomes[1])
    /\ outcomes[2].status_code = 429 /\ outcomes[2].text # RATE_TEXT
    /\ result.kind = "raised"

\* A round trip that brought back a table.
Succeeded(o) == o.kind = "response" /\ o.status_code = 200 /\ o.decodable

\* C7: in a series call, a request that fails (non-200 response, transport
\* exception, undecodable payload) is the last one sent: when batch k is the
\* first to fail exactly k requests are sent, the call raises, and no table
\* is returned; a table is returned only when every batch succeeded.
C7_FirstFailureAborts ==
    InSeriesCall =>
        /\ \A k \in 1..Len(outcomes) :
               ~Succeeded(outcomes[k]) =>
                   /\ k = Len(outcomes)
                   /\ Len(requests) = k
                   /\ result.kind # "returned"
                   /\ Done => result.kind = "raised"
        /\ result.kind = "returned" =>
               /\ Len(outcomes) = Len(series_chunks)
               /\ \A k \in 1..Len(outcomes) : Succeeded(outcomes[k])

\* A two-batch call whose first batch succeeded and whose second failed has
\* raised, the first batch's frame notwithstanding.
C7_Witness ==
    /\ InSeriesCall /\ Done
    /\ Len(series_chunks) = 2 /\ Len(outcomes) = 2
    /\ Succeeded(outcomes[1]) /\ ~Succeeded(outcomes[2])
    /\ Len(df_list) = 1
    /\ result.kind = "raised"

\* C8: at most one connection is open and at most one request outstanding;
\* a round trip begins only with no connection open (the previous one was
\* closed first, and no connection is held while sleeping); when the call
\* has returned or raised no connection is open.
C8_NoOverlapNoLeak ==
    /\ open_conns \in {0, 1}
    /\ outstanding \in {0, 1}
    /\ outstanding <= open_conns
    /\ outstanding = Len(requests) - Len(outcomes)
    /\ pc \in {"new", "failed", "idle", "done", "open", "while", "check", "except"}
           => open_conns = 0
    /\ \A i \in 1..Len(events) :
           /\ events[i] = "open" => i = 1 \/ events[i - 1] \in {"close", "sleep"}
           /\ events[i] = "sleep" => i > 1 /\ events[i - 1] = "close"
           /\ events[i] = "send" => i > 1 /\ events[i - 1] = "open"

\* invalidate_cache has ended because the transport failed during a retry,
\* after the first request and a wait.
C8_Witness ==
    /\ InInvalidate /\ Done
    /\ Len(requests) >= 2
    /\ Last(outcomes).kind = "exception"
    /\ open_conns = 0

OptionalKeys == {"freq", "validate_old", "currency", "start_date", "end_date"}

\* C9: the body of the request for batch k holds "series" with batch k, and
\* each optional key exactly when the caller supplied a value that is not
\* None (a supplied False included), with that value; all batches of a call
\* carry the same optional keys and values.
C9_RequestBody ==
    InSeriesCall =>
        LET supplied == {key \in OptionalKeys : params[key] # None}
        IN \A k \in 1..Len(requests) :
               LET body == requests[k].json
               IN /\ DOMAIN body = {"series"} \cup supplied
                  /\ body["series"] = series_chunks[k]
                  /\ \A key \in supplied : body[key] = params[key][1]
                  /\ \A key \in DOMAIN body \ {"series"} :
                         /\ key \in DOMAIN requests[1].json
                         /\ requests[1].json[key] = body[key]

\* The second batch's request of a call given validate_old=False and no
\* freq carries validate_old and no freq.
C9_Witness ==
    /\ InSeriesCall
    /\ Len(requests) = 2
    /\ params.validate_old = Some(FALSE) /\ params.freq = None
    /\ "validate_old" \in DOMAIN requests[2].json
    /\ requests[2].json["validate_old"] = FALSE
    /\ "freq" \notin DOMAIN requests[2].json

Constructed == pc \notin {"new", "failed"}

\* The key part of C10, which the amended claim keeps: the argument, else
\* the environment variable, else AuthenticationError with nothing sent.
C10_KeyResolution ==
    /\ pc = "new" => api_key = None /\ data_api_url = None
    /\ pc = "failed" =>
           /\ arg_key = None /\ environ.VP_ANALYSIS_API_KEY = None
           /\ RaisedError("AuthenticationError")
           /\ api_key = None /\ data_api_url = None
           /\ requests = <<>> /\ events = <<>>
    /\ Constructed =>
           /\ arg_key # None \/ environ.VP_ANALYSIS_API_KEY # None
           /\ api_key = IF arg_key # None THEN arg_key
                        ELSE environ.VP_ANALYSIS_API_KEY

\* C10 as claimed: token and base URL each come from the constructor
\* argument or the environment variable, construction fails when neither is
\* available for one of them, and both stay as constructed.  The
\* constructor has no base URL argument, so for the URL "neither" is the
\* environment variable being unset.
C10_BothFromArgumentOrEnvironment ==
    /\ C10_KeyResolution
    /\ (pc # "new" /\ environ.VP_DATA_API_URL = None) => pc = "failed"
    /\ Constructed =>
           data_api_url = Some(<<environ.VP_DATA_API_URL[1], "/api/v1">>)

\* C10 amended: the token is resolved from the api_key argument or
\* VP_ANALYSIS_API_KEY, the argument first, and construction fails with
\* AuthenticationError, before any request, when both are missing; the base
\* URL is VP_DATA_API_URL, or the built-in default when that is unset,
\* followed by "/api/v1", and its absence never fails construction; in
\* every state after construction, whatever operations ran, token and base
\* URL are the values so resolved.
C10_KeyFromArgumentOrEnvironmentUrlDefaulted ==
    /\ C10_KeyResolution
    /\ Constructed =>
           data_api_url =
               Some(<<IF environ.VP_DATA_API_URL # None
                      THEN environ.VP_DATA_API_URL[1]
                      ELSE "https://api.variantperception.com", "/api/v1">>)

\* A call has ended on a client built with both the argument and the
\* environment variable for the key, and without VP_DATA_API_URL.
C10_Witness ==
    /\ Done /\ requests # <<>>
    /\ arg_key # None /\ environ.VP_ANALYSIS_API_KEY # None
    /\ environ.VP_DATA_API_URL = None
    /\ api_key = arg_key

\* ------------------------------------------------------------------- C11
\* An index is regular at a step when each of its times but the last is
\* followed, exactly one step later, by the next time of the index.
Regular(index, step) ==
    \A t \in index :
        \/ \A u \in index : u <= t
        \/ /\ t + step \in index
           /\ \A u \in index : u <= t \/ u >= t + step

CleanDfReturned == pc = "idle" /\ cleaned # None

\* The rows of the given table at or after the start date.
RowsFromStart == {t \in df.index : t >= clean_start_date}

\* The rows in which at least one column of the given table has a value.
ValidRows(rows) == {t \in rows : \E c \in df.columns : df.data[c][t] # None}

HasEarlier(col, rows, t) == \E u \in rows : u < t /\ col[u] # None
HasLater(col, rows, t) == \E u \in rows : u > t /\ col[u] # None

\* The nearest non-missing value of the column before t, among the rows.
NearestEarlier(col, rows, t) ==
    LET u == CHOOSE u \in rows :
                 /\ u < t
                 /\ col[u] # None
                 /\ \A w \in rows : (w < t /\ col[w] # None) => w <= u
    IN col[u]

\* What a cell of the column holds after cleaning, counting the values of
\* the given rows only: a value stays, an interior gap takes the nearest
\* earlier value, every other missing cell stays missing.
CellAfterCleaning(col, rows, t) ==
    IF col[t] # None THEN col[t]
    ELSE IF HasEarlier(col, rows, t) /\ HasLater(col, rows, t)
         THEN NearestEarlier(col, rows, t)
         ELSE None

\* The returned table has the columns of the given one, exactly the rows
\* kept, and in them the cells cleaned over rows.
ReturnsCleaned(rows, kept) ==
    LET out == cleaned[1]
    IN /\ out.columns = df.columns
       /\ out.index = kept
       /\ \A c \in df.columns : \A t \in kept :
              out.data[c][t] = CellAfterCleaning(df.data[c], rows, t)

\* C11 as stated: for every table over a regular index, in each column a
\* missing cell is filled with the nearest earlier value of the column if and
\* only if the column has both an earlier and a later value, cells after the
\* column's last value stay missing, values are unchanged, and the returned
\* table is the given one from its first row with a valid value on.
C11_CleansWholeTable ==
    (CleanDfReturned /\ Regular(df.index, freq)) =>
        ReturnsCleaned(df.index,
                       {t \in df.index :
                           \E u \in ValidRows(df.index) : u <= t})

\* C11, amended: the same, counting only the rows at or after start_date
\* (earlier rows are removed and their values fill nothing), and a table with
\* no valid value in those rows is returned with all of those rows.
C11_CleansRowsFromStartDate ==
    (CleanDfReturned /\ Regular(df.index, freq)) =>
        ReturnsCleaned(RowsFromStart,
                       IF ValidRows(RowsFromStart) = {} THEN RowsFromStart
                       ELSE {t \in RowsFromStart :
                                \E u \in ValidRows(RowsFromStart) : u <= t})

\* clean_df has returned for a table over a regular index in which a row
\* before start_date held a value and was removed, a leading row without any
\* value was trimmed, an interior gap was filled with the value before it and
\* a cell after a column's last value was left missing.
C11_Witness ==
    /\ CleanDfReturned
    /\ Regular(df.index, freq)
    /\ \E t \in df.index : t < clean_start_date /\ t \in ValidRows(df.index)
    /\ \E t \in RowsFromStart : t \notin cleaned[1].index
    /\ \E c \in df.columns : \E t \in cleaned[1].index :
           /\ df.data[c][t] = None
           /\ cleaned[1].data[c][t] # None
           /\ cleaned[1].data[c][t] = NearestEarlier(df.data[c], RowsFromStart, t)
    /\ \E c \in df.columns : \E t \in cleaned[1].index :
           /\ HasEarlier(df.data[c], RowsFromStart, t)
           /\ df.data[c][t] = None
           /\ cleaned[1].data[c][t] = None

====
